---- MODULE Spec2Model ----
(***************************************************************************)
(* Model of open_flamingo/train/train.py: the epoch loop of main() with    *)
(* checkpoint discovery, load, save, rotation and the final weights, run   *)
(* by one process per rank, over a run directory that survives the         *)
(* termination and restart of the run.                                     *)
(***************************************************************************)
EXTENDS Integers, Sequences, FiniteSets, TLC

VARIABLES
    cfg,        \* args: num_epochs, do_eval, report_to_wandb, delete_previous_checkpoint, resume_from_checkpoint as given
    ext,        \* the file at an explicitly supplied resume path outside the run directory
    dirExists,  \* os.path.exists(args.run_name)
    files,      \* the checkpoint_<n>.pt files of the run directory
    finalFile,  \* final_weights.pt exists in the run directory
    pc,         \* per rank: position in main()
    epoch,      \* per rank: the loop variable
    start,      \* per rank: resume_from_epoch
    resume,     \* per rank: args.resume_from_checkpoint of that process
    trained,    \* per rank: the epochs handed to train_one_epoch, in order
    mode,       \* per rank: training or evaluation mode of ddp_model
    step,       \* per rank: the local variable step of the evaluation block
    err,        \* per rank: the stage whose exception ended the process
    wandbStep,  \* wandb.run.step
    wlog,       \* the wandb.log calls of main(), in order
    opLog,      \* the operations on the run directory in this run, in order
    before,     \* the checkpoint names present when the current checkpoint step began
    restarts,   \* how often the run was terminated and started again
    lastCrash,  \* restart without resume path: the epoch whose checkpoint step had just completed at the termination, else -1
    midCrash,   \* restart without resume path: the termination hit rank 0 inside an iteration of the loop
    seed,       \* args.seed
    seedLog,    \* per rank: the seeds random_seed has set, in order
    named,      \* the rest of model.named_parameters() in get_grouped_params
    withWd,     \* params_with_wd
    withoutWd   \* params_without_wd

\* the state of the startup before the checkpoint discovery
aux == <<seed, seedLog, named, withWd, withoutWd>>

vars == <<cfg, ext, dirExists, files, finalFile, pc, epoch, start, resume, trained,
          mode, step, err, wandbStep, wlog, opLog, before, restarts, lastCrash, midCrash,
          seed, seedLog, named, withWd, withoutWd>>

\* ---------------------------------------------------------------- bounds
NumRanks == 2
MaxEpochs == 3
MaxRestarts == 1
MaxFileNum == 11
MaxSeed == 7
MaxNameLen == 2

Ranks == 0 .. (NumRanks - 1)

\* ---------------------------------------------------------------- file names
\* checkpoint_{epoch}.pt: the f-string writes the epoch in decimal; a name is
\* kept as the sequence of its decimal digits.
RECURSIVE Format(_)
Format(n) == IF n < 10 THEN <<n>> ELSE Append(Format(n \div 10), n % 10)

\* int(x.split("_")[-1].split(".")[0]): the decimal value of the digits
RECURSIVE ParseInt(_)
ParseInt(s) ==
    IF Len(s) = 0 THEN 0
    ELSE 10 * ParseInt(SubSeq(s, 1, Len(s) - 1)) + s[Len(s)]

\* the order of Python strings, on digit sequences
RECURSIVE StrLess(_, _)
StrLess(a, b) ==
    IF Len(b) = 0 THEN FALSE
    ELSE IF Len(a) = 0 THEN TRUE
    ELSE IF a[1] # b[1] THEN a[1] < b[1]
    ELSE StrLess(Tail(a), Tail(b))

KeyLexLeq(a, b) == a = b \/ StrLess(a, b)

\* the sort key of line 178
KeyLeq(a, b) == ParseInt(a) <= ParseInt(b)

\* glob.glob(f"{args.run_name}/checkpoint_*.pt")
GlobCheckpoints == {f.name : f \in files}

\* sorted(checkpoint_list, key=...)[-1]: an element no other element's key
\* exceeds (glob's order decides among equal keys)
LatestCheckpoint(list) == {x \in list : \A y \in list : KeyLeq(y, x)}

NoResume == [kind |-> "none", name |-> <<>>]
ExtResume == [kind |-> "ext", name |-> <<>>]
DirResume(n) == [kind |-> "dir", name |-> n]

HasFile(n) == \E f \in files : f.name = n
FileOf(n) == CHOOSE f \in files : f.name = n

\* open(name, "wb") and the bytes written so far
WriteFile(n, q, e) == {f \in files : f.name # n} \cup {[name |-> n, q |-> q, epoch |-> e]}
RemoveFile(n) == {f \in files : f.name # n}

\* ---------------------------------------------------------------- guards of main()
\* if args.rank == 0 (lines 262, 281)
IsWriterAnyRank(r) == TRUE
IsWriter(r) == r = 0

\* if args.do_eval and args.rank == 0 (line 208)
DoesEvalAnyRank(r) == cfg.do_eval
DoesEval(r) == cfg.do_eval /\ r = 0

\* range(resume_from_epoch, args.num_epochs) (line 192)
InRange(e) == e < cfg.num_epochs

\* resume_from_epoch = checkpoint["epoch"] + 1 (line 188)
ResumeEpochSame(ck) == ck.epoch
ResumeEpoch(ck) == ck.epoch + 1

\* if args.delete_previous_checkpoint: if epoch > 0 (lines 277-278)
ShouldRotateAfterFirst(e) == cfg.delete_previous_checkpoint /\ e > start[0]
ShouldRotate(e) == cfg.delete_previous_checkpoint /\ e > 0

\* the k-th call of train_one_epoch returns on a rank once every rank has
\* entered its k-th call (gradient synchronisation inside the executor)
TrainSync(r) == \A q \in Ranks : Len(trained[q]) >= Len(trained[r])

\* ---------------------------------------------------------------- seeding
\* def random_seed(seed=42, rank=0): the default of rank
DefaultRank == 0

\* torch.manual_seed, np.random.seed and random.seed all get seed + rank
\* (lines 22-24)
RandomSeed(s, rk) == [torch |-> s + rk, numpy |-> s + rk, python |-> s + rk]

\* ---------------------------------------------------------------- parameter groups
\* A parameter name is a string, kept as the sequence of the fragments it is
\* made of; `k in x` of Python is: k is a contiguous part of x.
Fragments ==
    {"gated_cross_attn_layer", "backbone", "layer3", ".", "ff", "attn", "_gate",
     "qkv", "norm", "bias", "weight"}

Contains(x, k) ==
    \E i \in 1 .. (Len(x) - Len(k) + 1) : SubSeq(x, i, i + Len(k) - 1) = k

\* lines 150-157
ApplyDecayNoBiasTest(x) ==
    /\ Contains(x, <<"gated_cross_attn_layer">>)
    /\ ~Contains(x, <<"ff", "_gate">>)
    /\ ~Contains(x, <<"attn", "_gate">>)
    /\ ~Contains(x, <<"norm">>)

ApplyDecay(x) ==
    /\ Contains(x, <<"gated_cross_attn_layer">>)
    /\ ~Contains(x, <<"ff", "_gate">>)
    /\ ~Contains(x, <<"attn", "_gate">>)
    /\ ~Contains(x, <<"norm">>)
    /\ ~Contains(x, <<"bias">>)

\* ---------------------------------------------------------------- initial states
Configs ==
    [num_epochs : 0 .. MaxEpochs, do_eval : BOOLEAN, report_to_wandb : BOOLEAN,
     delete_previous_checkpoint : BOOLEAN, resume : {"none", "ext"}]

\* the epoch fields of the loadable files tried as explicit resume paths
ExtEpochs == {1, 7}

ExtFiles ==
    {[q |-> "ok", epoch |-> k] : k \in ExtEpochs}
        \cup {[q |-> x, epoch |-> 0] : x \in {"nokey", "missing"}}

RunStart(c) ==
    /\ pc = [r \in Ranks |-> "discover"]
    /\ epoch = [r \in Ranks |-> 0]
    /\ start = [r \in Ranks |-> 0]
    /\ resume = [r \in Ranks |-> IF c.resume = "ext" THEN ExtResume ELSE NoResume]
    /\ trained = [r \in Ranks |-> <<>>]
    /\ mode = [r \in Ranks |-> "train"]
    /\ step = [r \in Ranks |-> 0]
    /\ err = [r \in Ranks |-> "none"]
    /\ wandbStep = 0
    /\ wlog = <<>>
    /\ opLog = <<>>
    /\ before = {}

\* lines 123-170 have run: both seedings with the default seed, both
\* parameter groups built
StartupDone ==
    /\ seed = 42
    /\ seedLog = [r \in Ranks |-> <<RandomSeed(42, DefaultRank), RandomSeed(42, r)>>]
    /\ named = <<>>
    /\ withWd = <<>>
    /\ withoutWd = <<>>

Init ==
    /\ StartupDone
    /\ cfg \in Configs
    /\ ext \in ExtFiles
    /\ cfg.resume = "none" => ext = [q |-> "missing", epoch |-> 0]
    /\ dirExists = FALSE
    /\ files = {}
    /\ finalFile = FALSE
    /\ RunStart(cfg)
    /\ restarts = 0
    /\ lastCrash = -1
    /\ midCrash = FALSE

\* ---------------------------------------------------------------- discovery and load
\* lines 172-179
DiscoverNoEmptyCheck(r) ==
    /\ pc[r] = "discover"
    /\ IF dirExists /\ resume[r].kind = "none"
       THEN IF GlobCheckpoints = {}
            THEN /\ pc' = [pc EXCEPT ![r] = "failed"]
                 /\ err' = [err EXCEPT ![r] = "discover"]
                 /\ UNCHANGED resume
            ELSE /\ \E x \in LatestCheckpoint(GlobCheckpoints) :
                        resume' = [resume EXCEPT ![r] = DirResume(x)]
                 /\ pc' = [pc EXCEPT ![r] = "load"]
                 /\ UNCHANGED err
       ELSE /\ pc' = [pc EXCEPT ![r] = "load"]
            /\ UNCHANGED <<resume, err>>
    /\ UNCHANGED <<aux, cfg, ext, dirExists, files, finalFile, epoch, start, trained, mode,
                   step, wandbStep, wlog, opLog, before, restarts, lastCrash, midCrash>>

\* a discovery that only the writing rank performs
DiscoverOnWriterOnly(r) ==
    /\ pc[r] = "discover"
    /\ IF dirExists /\ resume[r].kind = "none" /\ IsWriter(r) /\ GlobCheckpoints # {}
       THEN \E x \in LatestCheckpoint(GlobCheckpoints) :
                resume' = [resume EXCEPT ![r] = DirResume(x)]
       ELSE UNCHANGED resume
    /\ pc' = [pc EXCEPT ![r] = "load"]
    /\ UNCHANGED <<aux, cfg, ext, dirExists, files, finalFile, epoch, start, trained, mode,
                   step, err, wandbStep, wlog, opLog, before, restarts, lastCrash, midCrash>>

Discover(r) ==
    /\ pc[r] = "discover"
    /\ IF dirExists /\ resume[r].kind = "none"
       THEN IF GlobCheckpoints = {}
            THEN UNCHANGED resume
            ELSE \E x \in LatestCheckpoint(GlobCheckpoints) :
                    resume' = [resume EXCEPT ![r] = DirResume(x)]
       ELSE UNCHANGED resume
    /\ pc' = [pc EXCEPT ![r] = "load"]
    /\ UNCHANGED <<aux, cfg, ext, dirExists, files, finalFile, epoch, start, trained, mode,
                   step, err, wandbStep, wlog, opLog, before, restarts, lastCrash, midCrash>>

\* the file torch.load opens for args.resume_from_checkpoint
Target(r) ==
    IF resume[r].kind = "ext" THEN ext
    ELSE IF HasFile(resume[r].name)
         THEN [q |-> FileOf(resume[r].name).q, epoch |-> FileOf(resume[r].name).epoch]
         ELSE [q |-> "missing", epoch |-> 0]

\* lines 181-182, 190: no checkpoint to load
LoadNone(r) ==
    /\ pc[r] = "load"
    /\ resume[r].kind = "none"
    /\ start' = [start EXCEPT ![r] = 0]
    /\ epoch' = [epoch EXCEPT ![r] = 0]
    /\ mode' = [mode EXCEPT ![r] = "train"]
    /\ pc' = [pc EXCEPT ![r] = "loop"]
    /\ UNCHANGED <<aux, cfg, ext, dirExists, files, finalFile, resume, trained, step, err,
                   wandbStep, wlog, opLog, before, restarts, lastCrash, midCrash>>

\* lines 182-190: the checkpoint loads
LoadOk(r) ==
    /\ pc[r] = "load"
    /\ resume[r].kind # "none"
    /\ Target(r).q = "ok"
    /\ start' = [start EXCEPT ![r] = ResumeEpoch(Target(r))]
    /\ epoch' = [epoch EXCEPT ![r] = ResumeEpoch(Target(r))]
    /\ mode' = [mode EXCEPT ![r] = "train"]
    /\ pc' = [pc EXCEPT ![r] = "loop"]
    /\ UNCHANGED <<aux, cfg, ext, dirExists, files, finalFile, resume, trained, step, err,
                   wandbStep, wlog, opLog, before, restarts, lastCrash, midCrash>>

\* lines 184-187 raise: no file, a truncated file, or no optimizer or
\* scheduler state in it
LoadFailFallsBack(r) ==
    /\ pc[r] = "load"
    /\ resume[r].kind # "none"
    /\ Target(r).q # "ok"
    /\ start' = [start EXCEPT ![r] = 0]
    /\ epoch' = [epoch EXCEPT ![r] = 0]
    /\ pc' = [pc EXCEPT ![r] = "loop"]
    /\ UNCHANGED <<aux, cfg, ext, dirExists, files, finalFile, resume, trained, mode, step, err,
                   wandbStep, wlog, opLog, before, restarts, lastCrash, midCrash>>

LoadFail(r) ==
    /\ pc[r] = "load"
    /\ resume[r].kind # "none"
    /\ Target(r).q # "ok"
    /\ pc' = [pc EXCEPT ![r] = "failed"]
    /\ err' = [err EXCEPT ![r] = "load"]
    /\ UNCHANGED <<aux, cfg, ext, dirExists, files, finalFile, epoch, start, resume, trained,
                   mode, step, wandbStep, wlog, opLog, before, restarts, lastCrash, midCrash>>

\* ---------------------------------------------------------------- the epoch loop
Op(o, r, e, n) == [op |-> o, rank |-> r, iter |-> e, arg |-> n]

\* lines 192-196: the next value of range(), set_epoch and the entry into
\* train_one_epoch; or the end of the loop
LoopNext(r) ==
    /\ pc[r] = "loop"
    /\ IF InRange(epoch[r])
       THEN /\ trained' = [trained EXCEPT ![r] = Append(@, epoch[r])]
            /\ pc' = [pc EXCEPT ![r] = "train"]
       ELSE /\ pc' = [pc EXCEPT ![r] = "final"]
            /\ UNCHANGED trained
    /\ UNCHANGED <<aux, cfg, ext, dirExists, files, finalFile, epoch, start, resume, mode,
                   step, err, wandbStep, wlog, opLog, before, restarts, lastCrash, midCrash>>

\* lines 196-208: train_one_epoch returns; it logs to wandb on the reporting rank
TrainEnd(r) ==
    /\ pc[r] = "train"
    /\ TrainSync(r)
    /\ wandbStep' = IF cfg.report_to_wandb /\ r = 0 THEN wandbStep + 1 ELSE wandbStep
    /\ pc' = [pc EXCEPT ![r] = IF DoesEval(r) THEN "coco" ELSE "ckpt"]
    /\ UNCHANGED <<aux, cfg, ext, dirExists, files, finalFile, epoch, start, resume, trained,
                   mode, step, err, wlog, opLog, before, restarts, lastCrash, midCrash>>

\* train_one_epoch raises
TrainFail(r) ==
    /\ pc[r] = "train"
    /\ pc' = [pc EXCEPT ![r] = "failed"]
    /\ err' = [err EXCEPT ![r] = "train"]
    /\ UNCHANGED <<aux, cfg, ext, dirExists, files, finalFile, epoch, start, resume, trained,
                   mode, step, wandbStep, wlog, opLog, before, restarts, lastCrash, midCrash>>

\* ---------------------------------------------------------------- evaluation
\* commit= of the k-th wandb.log of the block (lines 224, 241, 258)
LogCommitFirst(k) == k = 1 \/ k = 3
LogCommit(k) == k = 3

\* step = wandb.run.step if args.report_to_wandb else 0 (line 209)
ReadStep == IF cfg.report_to_wandb THEN wandbStep ELSE 0

\* wandb.log(score, step=s, commit=LogCommit(k)) when reporting (lines 223-224,
\* 240-241, 257-258)
Logged(r, k, s) ==
    IF cfg.report_to_wandb
    THEN Append(wlog, [iter |-> epoch[r], n |-> k, step |-> s, commit |-> LogCommit(k)])
    ELSE wlog

\* lines 209-224: the step is read, evaluate_coco runs (the evaluator puts the
\* model in evaluation mode), its score is logged
EvalCoco(r) ==
    /\ pc[r] = "coco"
    /\ step' = [step EXCEPT ![r] = ReadStep]
    /\ mode' = [mode EXCEPT ![r] = "eval"]
    /\ wlog' = Logged(r, 1, ReadStep)
    /\ pc' = [pc EXCEPT ![r] = "okvqa"]
    /\ UNCHANGED <<aux, cfg, ext, dirExists, files, finalFile, epoch, start, resume, trained,
                   err, wandbStep, opLog, before, restarts, lastCrash, midCrash>>

\* lines 226-241
EvalOkvqa(r) ==
    /\ pc[r] = "okvqa"
    /\ wlog' = Logged(r, 2, step[r])
    /\ pc' = [pc EXCEPT ![r] = "vqav2"]
    /\ UNCHANGED <<aux, cfg, ext, dirExists, files, finalFile, epoch, start, resume, trained,
                   mode, step, err, wandbStep, opLog, before, restarts, lastCrash, midCrash>>

\* lines 243-260: the committed log closes the wandb step; ddp_model.train()
EvalVqav2StaysInEval(r) ==
    /\ pc[r] = "vqav2"
    /\ wlog' = Logged(r, 3, step[r])
    /\ wandbStep' = IF cfg.report_to_wandb /\ LogCommit(3) THEN step[r] + 1 ELSE wandbStep
    /\ pc' = [pc EXCEPT ![r] = "ckpt"]
    /\ UNCHANGED <<aux, cfg, ext, dirExists, files, finalFile, epoch, start, resume, trained,
                   mode, step, err, opLog, before, restarts, lastCrash, midCrash>>

EvalVqav2(r) ==
    /\ pc[r] = "vqav2"
    /\ wlog' = Logged(r, 3, step[r])
    /\ wandbStep' = IF cfg.report_to_wandb /\ LogCommit(3) THEN step[r] + 1 ELSE wandbStep
    /\ mode' = [mode EXCEPT ![r] = "train"]
    /\ pc' = [pc EXCEPT ![r] = "ckpt"]
    /\ UNCHANGED <<aux, cfg, ext, dirExists, files, finalFile, epoch, start, resume, trained,
                   step, err, opLog, before, restarts, lastCrash, midCrash>>

\* an evaluator raises
EvalFail(r) ==
    /\ pc[r] \in {"coco", "okvqa", "vqav2"}
    /\ pc' = [pc EXCEPT ![r] = "failed"]
    /\ err' = [err EXCEPT ![r] = "eval"]
    /\ UNCHANGED <<aux, cfg, ext, dirExists, files, finalFile, epoch, start, resume, trained,
                   mode, step, wandbStep, wlog, opLog, before, restarts, lastCrash, midCrash>>

\* ---------------------------------------------------------------- checkpoint step
\* if not os.path.exists(args.run_name): os.makedirs(args.run_name)
WithMkdir(log, r, e) == IF dirExists THEN log ELSE Append(log, Op("mkdir", r, e, -1))

\* line 262 is false: the rank goes on to the next iteration
SkipCkpt(r) ==
    /\ pc[r] = "ckpt"
    /\ ~IsWriter(r)
    /\ epoch' = [epoch EXCEPT ![r] = @ + 1]
    /\ pc' = [pc EXCEPT ![r] = "loop"]
    /\ UNCHANGED <<aux, cfg, ext, dirExists, files, finalFile, start, resume, trained, mode,
                   step, err, wandbStep, wlog, opLog, before, restarts, lastCrash, midCrash>>

\* lines 262-273: the directory is made, torch.save opens checkpoint_{epoch}.pt
SaveBeginRotatesFirst(r) ==
    /\ pc[r] = "ckpt"
    /\ IsWriter(r)
    /\ before' = GlobCheckpoints
    /\ dirExists' = TRUE
    /\ files' = {f \in WriteFile(Format(epoch[r]), "partial", epoch[r]) :
                    ~(ShouldRotate(epoch[r]) /\ f.name = Format(epoch[r] - 1))}
    /\ opLog' = Append(IF ShouldRotate(epoch[r]) /\ HasFile(Format(epoch[r] - 1))
                       THEN Append(WithMkdir(opLog, r, epoch[r]),
                                   Op("remove", r, epoch[r], epoch[r] - 1))
                       ELSE WithMkdir(opLog, r, epoch[r]),
                       Op("save", r, epoch[r], epoch[r]))
    /\ pc' = [pc EXCEPT ![r] = "saving"]
    /\ UNCHANGED <<aux, cfg, ext, finalFile, epoch, start, resume, trained, mode, step, err,
                   wandbStep, wlog, restarts, lastCrash, midCrash>>

SaveBeginNextEpochField(r) ==
    /\ pc[r] = "ckpt"
    /\ IsWriter(r)
    /\ before' = GlobCheckpoints
    /\ dirExists' = TRUE
    /\ files' = WriteFile(Format(epoch[r]), "partial", epoch[r] + 1)
    /\ opLog' = Append(WithMkdir(opLog, r, epoch[r]), Op("save", r, epoch[r], epoch[r]))
    /\ pc' = [pc EXCEPT ![r] = "saving"]
    /\ UNCHANGED <<aux, cfg, ext, finalFile, epoch, start, resume, trained, mode, step, err,
                   wandbStep, wlog, restarts, lastCrash, midCrash>>

SaveBegin(r) ==
    /\ pc[r] = "ckpt"
    /\ IsWriter(r)
    /\ before' = GlobCheckpoints
    /\ dirExists' = TRUE
    /\ files' = WriteFile(Format(epoch[r]), "partial", epoch[r])
    /\ opLog' = Append(WithMkdir(opLog, r, epoch[r]), Op("save", r, epoch[r], epoch[r]))
    /\ pc' = [pc EXCEPT ![r] = "saving"]
    /\ UNCHANGED <<aux, cfg, ext, finalFile, epoch, start, resume, trained, mode, step, err,
                   wandbStep, wlog, restarts, lastCrash, midCrash>>

\* lines 273-275: torch.save returns with the whole record written
SaveEnd(r) ==
    /\ pc[r] = "saving"
    /\ files' = WriteFile(Format(epoch[r]), "ok", epoch[r])
    /\ opLog' = Append(opLog, Op("saved", r, epoch[r], epoch[r]))
    /\ pc' = [pc EXCEPT ![r] = "rotate"]
    /\ UNCHANGED <<aux, cfg, ext, dirExists, finalFile, epoch, start, resume, trained, mode,
                   step, err, wandbStep, wlog, before, restarts, lastCrash, midCrash>>

\* torch.save raises (storage exhausted): the truncated file stays
SaveFail(r) ==
    /\ pc[r] = "saving"
    /\ pc' = [pc EXCEPT ![r] = "failed"]
    /\ err' = [err EXCEPT ![r] = "save"]
    /\ UNCHANGED <<aux, cfg, ext, dirExists, files, finalFile, epoch, start, resume, trained,
                   mode, step, wandbStep, wlog, opLog, before, restarts, lastCrash, midCrash>>

\* lines 277-279, then the next iteration
RotateAndFinal(r) ==
    /\ pc[r] = "rotate"
    /\ IF ShouldRotate(epoch[r])
       THEN /\ HasFile(Format(epoch[r] - 1))
            /\ files' = RemoveFile(Format(epoch[r] - 1))
            /\ opLog' = Append(Append(opLog, Op("remove", r, epoch[r], epoch[r] - 1)),
                               Op("final", r, epoch[r], -1))
       ELSE /\ opLog' = Append(opLog, Op("final", r, epoch[r], -1))
            /\ UNCHANGED files
    /\ finalFile' = TRUE
    /\ epoch' = [epoch EXCEPT ![r] = @ + 1]
    /\ pc' = [pc EXCEPT ![r] = "loop"]
    /\ UNCHANGED <<aux, cfg, ext, dirExists, start, resume, trained, mode, step,
                   err, wandbStep, wlog, before, restarts, lastCrash, midCrash>>

Rotate(r) ==
    /\ pc[r] = "rotate"
    /\ IF ShouldRotate(epoch[r])
       THEN /\ HasFile(Format(epoch[r] - 1))
            /\ files' = RemoveFile(Format(epoch[r] - 1))
            /\ opLog' = Append(opLog, Op("remove", r, epoch[r], epoch[r] - 1))
       ELSE UNCHANGED <<files, opLog>>
    /\ epoch' = [epoch EXCEPT ![r] = @ + 1]
    /\ pc' = [pc EXCEPT ![r] = "loop"]
    /\ UNCHANGED <<aux, cfg, ext, dirExists, finalFile, start, resume, trained, mode, step,
                   err, wandbStep, wlog, before, restarts, lastCrash, midCrash>>

\* line 279 raises FileNotFoundError
RotateFail(r) ==
    /\ pc[r] = "rotate"
    /\ ShouldRotate(epoch[r])
    /\ ~HasFile(Format(epoch[r] - 1))
    /\ pc' = [pc EXCEPT ![r] = "failed"]
    /\ err' = [err EXCEPT ![r] = "rotate"]
    /\ UNCHANGED <<aux, cfg, ext, dirExists, files, finalFile, epoch, start, resume, trained,
                   mode, step, wandbStep, wlog, opLog, before, restarts, lastCrash, midCrash>>

\* lines 281-286
Finalize(r) ==
    /\ pc[r] = "final"
    /\ IF IsWriter(r)
       THEN /\ dirExists' = TRUE
            /\ finalFile' = TRUE
            /\ opLog' = Append(WithMkdir(opLog, r, epoch[r]), Op("final", r, epoch[r], -1))
       ELSE UNCHANGED <<dirExists, finalFile, opLog>>
    /\ pc' = [pc EXCEPT ![r] = "done"]
    /\ UNCHANGED <<aux, cfg, ext, files, epoch, start, resume, trained, mode, step, err,
                   wandbStep, wlog, before, restarts, lastCrash, midCrash>>

\* ---------------------------------------------------------------- termination and restart
\* every process of the run is terminated and main() is started again under
\* the same run name, with the same arguments or without the resume path; the
\* run directory and the file at the resume path stay as they are (ext is
\* kept in its initial form when no resume path is given)
Restart ==
    /\ restarts < MaxRestarts
    /\ restarts' = restarts + 1
    /\ \E a \in {"none", cfg.resume} :
        /\ cfg' = [cfg EXCEPT !.resume = a]
        /\ resume' = [r \in Ranks |-> IF a = "ext" THEN ExtResume ELSE NoResume]
        /\ ext' = IF a = "ext" THEN ext ELSE [q |-> "missing", epoch |-> 0]
        /\ lastCrash' = IF a = "none" /\ pc[0] = "loop" /\ epoch[0] > start[0] THEN epoch[0] - 1 ELSE -1
        /\ midCrash' = (a = "none" /\ pc[0] \in {"train", "coco", "okvqa", "vqav2", "ckpt", "saving", "rotate"})
    /\ pc' = [r \in Ranks |-> "discover"]
    /\ epoch' = [r \in Ranks |-> 0]
    /\ start' = [r \in Ranks |-> 0]
    /\ trained' = [r \in Ranks |-> <<>>]
    /\ mode' = [r \in Ranks |-> "train"]
    /\ step' = [r \in Ranks |-> 0]
    /\ err' = [r \in Ranks |-> "none"]
    /\ wandbStep' = 0
    /\ wlog' = <<>>
    /\ opLog' = <<>>
    /\ before' = {}
    /\ UNCHANGED <<aux, dirExists, files, finalFile>>

Next ==
    \/ \E r \in Ranks :
        \/ Discover(r)
        \/ LoadNone(r)
        \/ LoadOk(r)
        \/ LoadFail(r)
        \/ LoopNext(r)
        \/ TrainEnd(r)
        \/ TrainFail(r)
        \/ EvalCoco(r)
        \/ EvalOkvqa(r)
        \/ EvalVqav2(r)
        \/ EvalFail(r)
        \/ SkipCkpt(r)
        \/ SaveBegin(r)
        \/ SaveEnd(r)
        \/ SaveFail(r)
        \/ Rotate(r)
        \/ RotateFail(r)
        \/ Finalize(r)
    \/ Restart

Spec == Init /\ [][Next]_vars

\* ---------------------------------------------------------------- discovery on its own
\* Discovery applied to every run directory holding a set of the files
\* checkpoint_0.pt .. checkpoint_<MaxFileNum>.pt, no resume path given.
InitDiscovery ==
    /\ StartupDone
    /\ cfg = [num_epochs |-> 0, do_eval |-> FALSE, report_to_wandb |-> FALSE,
              delete_previous_checkpoint |-> FALSE, resume |-> "none"]
    /\ ext = [q |-> "missing", epoch |-> 0]
    /\ dirExists = TRUE
    /\ \E S \in SUBSET (0 .. MaxFileNum) :
          files = {[name |-> Format(n), q |-> "ok", epoch |-> n] : n \in S}
    /\ finalFile = FALSE
    /\ RunStart(cfg)
    /\ restarts = 0
    /\ lastCrash = -1
    /\ midCrash = FALSE

NextDiscovery == \E r \in Ranks : Discover(r)

SpecDiscovery == InitDiscovery /\ [][NextDiscovery]_vars

\* ---------------------------------------------------------------- properties
OpsOf(o) == {i \in DOMAIN opLog : opLog[i].op = o}
SeqRange(q) == {q[i] : i \in DOMAIN q}
Max(S) == CHOOSE x \in S : \A y \in S : y <= x

\* C1: every creation of the run directory, every write of a checkpoint
\* file, every deletion of one and the write of final_weights.pt is done by
\* the process of rank 0; no other rank changes the run directory.
C1_OnlyRankZeroWrites ==
    /\ \A i \in DOMAIN opLog : opLog[i].rank = 0
    /\ (\E r \in Ranks \ {0} : pc[r] \in {"saving", "rotate"}) = FALSE

C1_Witness ==
    /\ NumRanks > 1
    /\ \A r \in Ranks : pc[r] = "done"
    /\ OpsOf("mkdir") # {}
    /\ OpsOf("saved") # {}
    /\ OpsOf("remove") # {}
    /\ OpsOf("final") # {}

\* C2: with rotation enabled, checkpoint_{e-1}.pt is deleted only after the
\* write of checkpoint_e.pt has completed; when the save of epoch e fails the
\* process has stopped, nothing was deleted in that step and checkpoint_{e-1}.pt
\* is still there; in a run that loaded nothing, the step of epoch 0 deletes
\* nothing and the step of epoch 1 deletes checkpoint_0.pt.
C2_RotateAfterSave ==
    cfg.delete_previous_checkpoint =>
        /\ \A i \in OpsOf("remove") :
              /\ opLog[i].iter > 0
              /\ opLog[i].arg = opLog[i].iter - 1
              /\ \E j \in 1 .. (i - 1) :
                    opLog[j].op = "saved" /\ opLog[j].iter = opLog[i].iter
        /\ err[0] = "save" =>
              /\ pc[0] = "failed"
              /\ \A i \in OpsOf("remove") : opLog[i].iter # epoch[0]
              /\ \A n \in before : n # Format(epoch[0]) => HasFile(n)
        /\ (resume[0].kind = "none" /\ pc[0] \notin {"discover", "load"}) =>
              /\ \A i \in OpsOf("remove") : opLog[i].iter # 0
              /\ epoch[0] = 1 => HasFile(Format(0))
              /\ epoch[0] >= 2 =>
                    /\ \E i \in OpsOf("remove") : opLog[i].iter = 1 /\ opLog[i].arg = 0
                    /\ ~HasFile(Format(0))

C2_Witness ==
    /\ cfg.delete_previous_checkpoint
    /\ resume[0].kind = "none"
    /\ err[0] = "save"
    /\ epoch[0] = 2
    /\ \E i \in OpsOf("remove") : opLog[i].arg = 0
    /\ HasFile(Format(1))
    /\ FileOf(Format(1)).q = "ok"

\* rank 0 has just completed the checkpoint step of the first epoch of its run
FirstStepDone == pc[0] = "loop" /\ epoch[0] = start[0] + 1 /\ Len(trained[0]) = 1

C4_DiscoveryNumericMax ==
    \A r \in Ranks :
        (pc[r] = "load" /\ files # {}) =>
            /\ resume[r].kind = "dir"
            /\ resume[r].name = Format(Max({f.epoch : f \in files}))
            /\ {f.epoch : f \in files} = {2, 5, 10} => resume[r].name = <<1, 0>>

C4_Witness ==
    /\ {f.epoch : f \in files} = {2, 5, 10}
    /\ pc[0] = "load"
    /\ resume[0] = DirResume(<<1, 0>>)

\* the epochs range(s, num_epochs) yields
EpochsFrom(s) == [i \in 1 .. (IF cfg.num_epochs > s THEN cfg.num_epochs - s ELSE 0) |-> s + i - 1]

\* C5: the loop starts at 0 when no checkpoint is loaded and at the loaded
\* checkpoint's epoch + 1 otherwise (7 gives 8); it runs exactly the epochs
\* from there to num_epochs - 1; when the start is at or beyond num_epochs no
\* epoch is trained and no checkpoint is saved.
C5_StartEpochAndRange ==
    \A r \in Ranks :
        pc[r] \notin {"discover", "load", "failed"} \/ (pc[r] = "failed" /\ err[r] # "load") =>
            /\ resume[r].kind = "none" => start[r] = 0
            /\ resume[r].kind = "ext" => start[r] = ext.epoch + 1
            /\ (resume[r].kind = "ext" /\ ext.epoch = 7) => start[r] = 8
            /\ resume[r].kind = "dir" => start[r] = ParseInt(resume[r].name) + 1
            /\ \A i \in DOMAIN trained[r] : i <= Len(EpochsFrom(start[r])) /\ trained[r][i] = EpochsFrom(start[r])[i]
            /\ pc[r] \in {"final", "done"} => trained[r] = EpochsFrom(start[r])
            /\ start[r] >= cfg.num_epochs =>
                  /\ trained[r] = <<>>
                  /\ \A i \in DOMAIN opLog : opLog[i].rank = r => opLog[i].op \in {"mkdir", "final"}

C5_Witness ==
    /\ resume[0].kind = "dir"
    /\ pc[0] = "done"
    /\ start[0] = 1
    /\ trained[0] = <<1, 2>>
    /\ pc[1] = "done"
    /\ trained[1] = <<1, 2>>

\* the run at hand: 3 epochs, started without a resume path after the first
\* run under the name was terminated right after epoch 1's checkpoint step,
\* and rank 0 has completed it
RestartedAfterEpoch1 ==
    /\ restarts = 1
    /\ lastCrash = 1
    /\ cfg.num_epochs = 3
    /\ cfg.resume = "none"
    /\ pc[0] = "done"

\* C6 as stated: such a run resumes at epoch 2 and completes with exactly 2
\* more saved checkpoints and exactly one final-weights artifact.
C6_TwoMoreCheckpoints ==
    RestartedAfterEpoch1 =>
        /\ start[0] = 2
        /\ Cardinality(OpsOf("saved")) = 2
        /\ Cardinality(OpsOf("final")) = 1

\* C6 amended: such a run resumes at epoch 2 and completes with exactly 1
\* more saved checkpoint, checkpoint_2.pt (with rotation, checkpoint_1.pt is
\* deleted after it), and exactly one final-weights artifact.
C6_OneMoreCheckpoint ==
    RestartedAfterEpoch1 =>
        /\ start[0] = 2
        /\ trained[0] = <<2>>
        /\ Cardinality(OpsOf("saved")) = 1
        /\ \A i \in OpsOf("saved") : opLog[i].arg = 2
        /\ HasFile(Format(2)) /\ FileOf(Format(2)).q = "ok"
        /\ Cardinality(OpsOf("remove")) = (IF cfg.delete_previous_checkpoint THEN 1 ELSE 0)
        /\ \A i \in OpsOf("remove") : opLog[i].arg = 1
        /\ Cardinality(OpsOf("final")) = 1
        /\ finalFile

C6_Witness ==
    /\ RestartedAfterEpoch1
    /\ cfg.delete_previous_checkpoint
    /\ GlobCheckpoints = {Format(2)}
    /\ finalFile

\* C7: final_weights.pt is written exactly once in a run that completes, by
\* rank 0, after the checkpoint step of the last iteration (also with zero
\* iterations); it is not written while rank 0 is still in the loop, nor by a
\* process that stopped on an error of load, training, evaluation, save or
\* rotation.
C7_FinalWeightsOnceAtEnd ==
    /\ pc[0] = "done" =>
          /\ Cardinality(OpsOf("final")) = 1
          /\ opLog[Len(opLog)].op = "final"
          /\ opLog[Len(opLog)].rank = 0
          /\ finalFile
          /\ epoch[0] >= cfg.num_epochs
          /\ trained[0] = EpochsFrom(start[0])
          /\ \A e \in SeqRange(trained[0]) : \E i \in OpsOf("saved") : opLog[i].iter = e
    /\ pc[0] # "done" => OpsOf("final") = {}
    /\ err[0] # "none" => pc[0] = "failed" /\ OpsOf("final") = {}

C7_Witness ==
    /\ pc[0] = "done"
    /\ Len(trained[0]) >= 2
    /\ OpsOf("final") # {}
    /\ cfg.do_eval

\* C8: with no resume path given and a run directory that does not exist or
\* holds no checkpoint file, discovery selects nothing and raises nothing,
\* and the process then loads nothing and starts the loop at epoch 0.
C8_FreshStartWithoutCheckpoints ==
    /\ [][\A r \in Ranks :
            (/\ pc[r] = "discover"
             /\ pc'[r] # "discover"
             /\ restarts' = restarts
             /\ resume[r].kind = "none"
             /\ (~dirExists \/ GlobCheckpoints = {}))
            => (pc'[r] = "load" /\ resume'[r] = NoResume /\ err'[r] = "none")]_vars
    /\ [][\A r \in Ranks :
            (/\ pc[r] = "load"
             /\ pc'[r] # "load"
             /\ restarts' = restarts
             /\ resume[r].kind = "none")
            => (pc'[r] = "loop" /\ start'[r] = 0 /\ epoch'[r] = 0 /\ err'[r] = "none")]_vars

C8_Witness ==
    /\ restarts = 1
    /\ dirExists
    /\ files = {}
    /\ cfg.resume = "none"
    /\ pc[0] = "train"
    /\ start[0] = 0
    /\ trained[0] = <<0>>

\* C9: a resume target that cannot be loaded (no file, a truncated file, no
\* optimizer or scheduler state) ends the process with an error: it does not
\* start the loop, trains no epoch and writes nothing in the run directory.
C9_LoadFailureIsFatal ==
    /\ [](\A r \in Ranks :
            err[r] = "load" =>
                /\ pc[r] = "failed"
                /\ trained[r] = <<>>
                /\ \A i \in DOMAIN opLog : opLog[i].rank # r)
    /\ [][\A r \in Ranks :
            (/\ pc[r] = "load"
             /\ pc'[r] # "load"
             /\ restarts' = restarts
             /\ resume[r].kind # "none"
             /\ Target(r).q # "ok")
            => (pc'[r] = "failed" /\ err'[r] = "load")]_vars
    /\ [][\A r \in Ranks :
            (pc[r] = "failed" /\ restarts' = restarts)
            => (pc'[r] = "failed" /\ trained'[r] = trained[r] /\ err'[r] = err[r])]_vars

C9_Witness ==
    /\ err[0] = "load"
    /\ resume[0].kind = "dir"
    /\ Target(0).q = "partial"
    /\ opLog = <<>>

\* the wandb.log calls of iteration e
WritesOf(e) ==
    LET OfIter(w) == w.iter = e
    IN  SelectSeq(wlog, OfIter)

\* rank 0 has gone through the whole evaluation block of iteration e
EvalDone(e) ==
    /\ cfg.do_eval
    /\ e \in SeqRange(trained[0])
    /\ \/ epoch[0] > e
       \/ epoch[0] = e /\ (pc[0] \in {"ckpt", "saving", "rotate"} \/ err[0] \in {"save", "rotate"})

\* C10: with telemetry enabled, every epoch whose evaluation ran sent exactly
\* three score writes, in order, all with the step number read before the
\* first evaluation, the first two uncommitted and the third committed.
C10_ThreeWritesOneStep ==
    /\ ~cfg.report_to_wandb => wlog = <<>>
    /\ \A i \in DOMAIN wlog : wlog[i].iter \in SeqRange(trained[0]) /\ cfg.do_eval
    /\ \A e \in 0 .. MaxEpochs :
          (cfg.report_to_wandb /\ EvalDone(e)) =>
              LET w == WritesOf(e)
              IN  /\ Len(w) = 3
                  /\ \A k \in 1 .. 3 : w[k].n = k /\ w[k].step = w[1].step
                  /\ <<w[1].commit, w[2].commit, w[3].commit>> = <<FALSE, FALSE, TRUE>>
    /\ \A i \in DOMAIN wlog, j \in DOMAIN wlog :
          (i < j /\ wlog[i].iter = wlog[j].iter) => (wlog[i].n < wlog[j].n /\ wlog[i].step = wlog[j].step)
    /\ \A i \in DOMAIN wlog : wlog[i].commit = (wlog[i].n = 3)

C10_Witness ==
    /\ cfg.report_to_wandb
    /\ EvalDone(0)
    /\ EvalDone(1)
    /\ Len(wlog) = 6
    /\ wlog[1].step # wlog[4].step

\* C11: on every rank the model is in training mode whenever the process is
\* inside train_one_epoch, and also in its checkpoint step: the evaluation
\* block, which leaves the model in evaluation mode, ends with a return to
\* training mode.
C11_TrainModeWhenTraining ==
    \A r \in Ranks :
        /\ pc[r] \in {"loop", "train", "ckpt", "saving", "rotate"} => mode[r] = "train"
        /\ mode[r] = "eval" => (r = 0 /\ cfg.do_eval /\ (pc[r] \in {"okvqa", "vqav2"} \/ err[r] = "eval"))

C11_Witness ==
    /\ cfg.do_eval
    /\ pc[0] = "train"
    /\ trained[0] = <<0, 1>>
    /\ mode[0] = "train"
    /\ pc[1] = "train"

\* ---------------------------------------------------------------- the startup on its own
\* the arguments and the run directory of a process that has not reached the
\* checkpoint discovery
BeforeDiscovery ==
    /\ cfg = [num_epochs |-> 1, do_eval |-> FALSE, report_to_wandb |-> FALSE,
              delete_previous_checkpoint |-> FALSE, resume |-> "none"]
    /\ ext = [q |-> "missing", epoch |-> 0]
    /\ dirExists = FALSE
    /\ files = {}
    /\ finalFile = FALSE
    /\ epoch = [r \in Ranks |-> 0]
    /\ start = [r \in Ranks |-> 0]
    /\ resume = [r \in Ranks |-> NoResume]
    /\ trained = [r \in Ranks |-> <<>>]
    /\ mode = [r \in Ranks |-> "train"]
    /\ step = [r \in Ranks |-> 0]
    /\ err = [r \in Ranks |-> "none"]
    /\ wandbStep = 0
    /\ wlog = <<>>
    /\ opLog = <<>>
    /\ before = {}
    /\ restarts = 0
    /\ lastCrash = -1
    /\ midCrash = FALSE

loopVars == <<cfg, ext, dirExists, files, finalFile, epoch, start, resume, trained,
          mode, step, err, wandbStep, wlog, opLog, before, restarts, lastCrash, midCrash>>

\* line 123: random_seed(args.seed)
SeedPreWithRank(r) ==
    /\ pc[r] = "seed1"
    /\ seedLog' = [seedLog EXCEPT ![r] = Append(@, RandomSeed(seed, r))]
    /\ pc' = [pc EXCEPT ![r] = "build"]
    /\ UNCHANGED <<loopVars, seed, named, withWd, withoutWd>>

SeedPre(r) ==
    /\ pc[r] = "seed1"
    /\ seedLog' = [seedLog EXCEPT ![r] = Append(@, RandomSeed(seed, DefaultRank))]
    /\ pc' = [pc EXCEPT ![r] = "build"]
    /\ UNCHANGED <<loopVars, seed, named, withWd, withoutWd>>

\* lines 125-131: create_model_and_transforms
BuildModel(r) ==
    /\ pc[r] = "build"
    /\ pc' = [pc EXCEPT ![r] = "seed2"]
    /\ UNCHANGED <<loopVars, aux>>

\* line 133: random_seed(args.seed, args.rank)
SeedPost(r) ==
    /\ pc[r] = "seed2"
    /\ seedLog' = [seedLog EXCEPT ![r] = Append(@, RandomSeed(seed, r))]
    /\ pc' = [pc EXCEPT ![r] = "seeded"]
    /\ UNCHANGED <<loopVars, seed, named, withWd, withoutWd>>

InitSeed ==
    /\ BeforeDiscovery
    /\ pc = [r \in Ranks |-> "seed1"]
    /\ seed \in (0 .. MaxSeed) \cup {42}
    /\ seedLog = [r \in Ranks |-> <<>>]
    /\ named = <<>>
    /\ withWd = <<>>
    /\ withoutWd = <<>>

NextSeed == \E r \in Ranks : SeedPre(r) \/ BuildModel(r) \/ SeedPost(r)

SpecSeed == InitSeed /\ [][NextSeed]_vars

\* C12: every process seeds exactly twice: before the model is built with
\* the base seed, whatever its rank, and after it with base seed + rank; two
\* distinct ranks have the same first seed and different second seeds.
C12_SeedTwiceRankScopedSecond ==
    /\ \A r \in Ranks :
          /\ Len(seedLog[r]) = (CASE pc[r] = "seed1" -> 0
                                  [] pc[r] \in {"build", "seed2"} -> 1
                                  [] OTHER -> 2)
          /\ \A i \in DOMAIN seedLog[r] :
                LET v == IF i = 1 THEN seed ELSE seed + r
                IN  seedLog[r][i] = [torch |-> v, numpy |-> v, python |-> v]
    /\ \A r \in Ranks, q \in Ranks :
          (r # q /\ pc[r] = "seeded" /\ pc[q] = "seeded") =>
              /\ seedLog[r][1] = seedLog[q][1]
              /\ seedLog[r][2] # seedLog[q][2]

C12_Witness ==
    /\ NumRanks > 1
    /\ \A r \in Ranks : pc[r] = "seeded"
    /\ seedLog[0][1] = seedLog[1][1]
    /\ seedLog[0][2].torch = 42
    /\ seedLog[1][2].torch = 43

\* ---------------------------------------------------------------- get_grouped_params on its own
\* the five names of the documented example
ExampleNames ==
    << <<"gated_cross_attn_layer", ".", "ff", "_gate">>,
       <<"gated_cross_attn_layer", ".", "attn", ".", "qkv">>,
       <<"gated_cross_attn_layer", ".", "norm", ".", "weight">>,
       <<"backbone", ".", "layer3", ".", "bias">>,
       <<"gated_cross_attn_layer", ".", "attn", "_gate">> >>

\* every name of 1 .. MaxNameLen fragments
NamePool == UNION {[1 .. n -> Fragments] : n \in 1 .. MaxNameLen}

\* lines 159-163: one turn of the for loop
GroupStep ==
    /\ named # <<>>
    /\ IF ApplyDecay(Head(named))
       THEN withWd' = Append(withWd, Head(named)) /\ UNCHANGED withoutWd
       ELSE withoutWd' = Append(withoutWd, Head(named)) /\ UNCHANGED withWd
    /\ named' = Tail(named)
    /\ UNCHANGED <<loopVars, pc, seed, seedLog>>

\* named_parameters() yields the example's names and one more name
InitGroup ==
    /\ BeforeDiscovery
    /\ pc = [r \in Ranks |-> "seeded"]
    /\ seed = 42
    /\ seedLog = [r \in Ranks |-> <<RandomSeed(42, DefaultRank), RandomSeed(42, r)>>]
    /\ \E n \in NamePool : named = <<n>> \o ExampleNames
    /\ withWd = <<>>
    /\ withoutWd = <<>>

NextGroup == GroupStep

SpecGroup == InitGroup /\ [][NextGroup]_vars

Has(x, a) == \E i \in DOMAIN x : x[i] = a
HasSeq(x, k) == \E i \in DOMAIN x : i + Len(k) - 1 <= Len(x) /\ \A j \in DOMAIN k : x[i + j - 1] = k[j]

\* a gated cross-attention parameter that is no gate weight, no normalisation
\* parameter and no bias
DecayEligible(x) ==
    /\ Has(x, "gated_cross_attn_layer")
    /\ ~HasSeq(x, <<"ff", "_gate">>)
    /\ ~HasSeq(x, <<"attn", "_gate">>)
    /\ ~Has(x, "norm")
    /\ ~Has(x, "bias")

\* C13: every parameter the loop has handled is in exactly one of the two
\* groups, in the decay group iff it is decay-eligible; of the example's five
\* names only gated_cross_attn_layer.attn.qkv is in the decay group.
C13_GroupsPartitionByRule ==
    /\ Len(named) + Len(withWd) + Len(withoutWd) = Len(ExampleNames) + 1
    /\ \A i \in DOMAIN withWd, j \in DOMAIN withoutWd : withWd[i] # withoutWd[j]
    /\ \A i \in DOMAIN withWd, j \in DOMAIN withWd : withWd[i] = withWd[j] => i = j
    /\ \A i \in DOMAIN withoutWd, j \in DOMAIN withoutWd : withoutWd[i] = withoutWd[j] => i = j
    /\ \A i \in DOMAIN ExampleNames :
          Has(named, ExampleNames[i]) \/ Has(withWd, ExampleNames[i]) \/ Has(withoutWd, ExampleNames[i])
    /\ \A i \in DOMAIN withWd : DecayEligible(withWd[i])
    /\ \A i \in DOMAIN withoutWd : ~DecayEligible(withoutWd[i])
    /\ named = <<>> =>
          /\ Has(withWd, ExampleNames[2])
          /\ \A i \in {1, 3, 4, 5} : Has(withoutWd, ExampleNames[i]) /\ ~Has(withWd, ExampleNames[i])

C13_Witness ==
    /\ named = <<>>
    /\ withWd = << <<"gated_cross_attn_layer", "weight">>, ExampleNames[2] >>
    /\ Len(withoutWd) = 4

\* the process of rank r is past the load of lines 181-190
InLoop(r) == pc[r] \in {"loop", "train", "coco", "okvqa", "vqav2", "ckpt", "saving", "rotate", "final", "done"}

\* C14: within a run, on every rank, the epochs handed to train_one_epoch are
\* start, start + 1, ... in that order and end with num_epochs - 1; the loop
\* variable grows by one per iteration; the checkpoint written in an
\* iteration has that iteration's epoch in its file name and in its epoch
\* field.
C14_EpochsInOrderAndInCheckpoint ==
    /\ \A r \in Ranks :
          InLoop(r) =>
              /\ \A i \in DOMAIN trained[r] : trained[r][i] = start[r] + i - 1 /\ trained[r][i] < cfg.num_epochs
              /\ pc[r] \in {"train", "coco", "okvqa", "vqav2", "ckpt", "saving", "rotate"} =>
                    (trained[r] # <<>> /\ epoch[r] = trained[r][Len(trained[r])])
              /\ pc[r] = "loop" => epoch[r] = start[r] + Len(trained[r])
              /\ pc[r] \in {"final", "done"} =>
                    /\ epoch[r] = start[r] + Len(trained[r])
                    /\ epoch[r] >= cfg.num_epochs
                    /\ (trained[r] # <<>> => trained[r][Len(trained[r])] = cfg.num_epochs - 1)
    /\ \A i \in OpsOf("save") \cup OpsOf("saved") :
          /\ opLog[i].arg = opLog[i].iter
          /\ Has(trained[opLog[i].rank], opLog[i].iter)
    /\ \A f \in files : f.name = Format(f.epoch) /\ ParseInt(f.name) = f.epoch
    /\ pc[0] \in {"saving", "rotate"} =>
          /\ HasFile(Format(epoch[0]))
          /\ FileOf(Format(epoch[0])).epoch = epoch[0]

C14_Witness ==
    /\ pc[0] = "rotate"
    /\ start[0] = 1
    /\ trained[0] = <<1, 2>>
    /\ FileOf(<<2>>) = [name |-> <<2>>, q |-> "ok", epoch |-> 2]
    /\ pc[1] \in {"final", "done"}
    /\ trained[1] = <<1, 2>>

\* C15: within one process the steps of an iteration come in the order
\* dataset epoch signal and training, evaluation, checkpoint save, rotation;
\* the evaluation runs iff evaluation is enabled and the rank is 0, else the
\* process goes from training to the checkpoint step; the save of an epoch's
\* checkpoint starts only after that epoch's training and, when it runs, its
\* evaluation have finished, and files are removed only after the save.
C15_StepOrderInIteration ==
    [][\A r \in Ranks :
        (pc'[r] # pc[r] /\ restarts' = restarts) =>
            /\ pc[r] = "loop" => pc'[r] \in {"train", "final"}
            /\ pc'[r] = "train" => (pc[r] = "loop" /\ trained'[r] = Append(trained[r], epoch[r]))
            /\ pc[r] = "train" =>
                  pc'[r] \in {"failed", IF cfg.do_eval /\ r = 0 THEN "coco" ELSE "ckpt"}
            /\ pc'[r] \in {"coco", "okvqa", "vqav2"} => (cfg.do_eval /\ r = 0)
            /\ pc'[r] = "coco" => pc[r] = "train"
            /\ pc'[r] = "okvqa" => pc[r] = "coco"
            /\ pc'[r] = "vqav2" => pc[r] = "okvqa"
            /\ pc'[r] = "ckpt" => pc[r] = (IF cfg.do_eval /\ r = 0 THEN "vqav2" ELSE "train")
            /\ pc'[r] = "saving" =>
                  /\ pc[r] = "ckpt"
                  /\ trained[r] # <<>>
                  /\ trained[r][Len(trained[r])] = epoch[r]
                  /\ HasFile(Format(epoch[r]))'
            /\ pc'[r] = "rotate" => pc[r] = "saving"
            /\ GlobCheckpoints # GlobCheckpoints' => pc[0] \in {"ckpt", "rotate"}
            /\ ~(GlobCheckpoints \subseteq GlobCheckpoints') => pc[0] = "rotate"]_vars

C15_Witness ==
    /\ cfg.do_eval
    /\ cfg.delete_previous_checkpoint
    /\ pc[0] = "loop"
    /\ epoch[0] = 2
    /\ OpsOf("remove") # {}
    /\ mode[0] = "train"
    /\ pc[1] = "train"
    /\ epoch[1] = 2

\* the completely written checkpoint records of the run directory
Complete == {f \in files : f.q = "ok"}

\* rank 0 of a run started without a resume path has just gone through the
\* load, with the run directory as the terminated run left it
JustLoadedAfterCrash ==
    /\ restarts >= 1
    /\ midCrash
    /\ cfg.resume = "none"
    /\ \/ pc[0] = "failed" /\ err[0] = "load"
       \/ pc[0] = "loop" /\ trained[0] = <<>>

\* C16: when the run was terminated inside an iteration (in training, in
\* evaluation or while the checkpoint was written), the restart without a
\* resume path loads the last completely written checkpoint and resumes at
\* the epoch after it (at 0 when there is none).
C16_RestartLoadsLastComplete ==
    JustLoadedAfterCrash =>
        /\ err[0] = "none"
        /\ start[0] = (IF Complete = {} THEN 0 ELSE Max({f.epoch : f \in Complete}) + 1)

\* rank 0 is inside its checkpoint step: the new record is being written or is
\* written and the previous one not yet deleted
StepInProgress == pc[0] \in {"saving", "rotate"}

\* rank 0 has just completed the checkpoint step of an iteration of this run
StepCompleted == pc[0] = "loop" /\ epoch[0] > start[0]

\* C17: with rotation enabled in every run of the run name, the run directory
\* holds at most two checkpoint records in every reachable state, across
\* crashes and restarts; while a checkpoint step is in progress the records
\* are the newest one and possibly its immediate predecessor; after each
\* completed checkpoint step there is exactly one.
C17_AtMostTwoRecords ==
    cfg.delete_previous_checkpoint =>
        /\ Cardinality(files) <= 2
        /\ StepInProgress => {f.epoch : f \in files} \subseteq {epoch[0] - 1, epoch[0]}
        /\ StepCompleted => Cardinality(files) = 1

\* C18: with rotation enabled, once a checkpoint of the run name has
\* been completely written, no step of any run (a save, a deletion, a
\* termination and restart) leaves the run directory without a completely
\* written checkpoint record.
C18_CompleteRecordKept ==
    [][(cfg.delete_previous_checkpoint /\ Complete # {}) => Complete' # {}]_vars

\* C19: with rotation enabled the rotation step never fails: whenever rank 0
\* stands before the deletion for an epoch e > 0, checkpoint_{e-1}.pt is in
\* the run directory, and no run ends in a failed deletion, however the run
\* started (fresh, by discovery, or from an explicit path).
C19_RotationNeverFails ==
    /\ (pc[0] = "rotate" /\ ShouldRotate(epoch[0])) => HasFile(Format(epoch[0] - 1))
    /\ \A r \in Ranks : err[r] # "rotate"

\* rank r has gone through discovery and load and computed its resume epoch
PastLoad(r) == InLoop(r) \/ (pc[r] = "failed" /\ err[r] # "load")

====
